---- MODULE Spec2Model ----
(***************************************************************************)
(* tagbam: re-tagging of BAM records from their read names.                *)
(*                                                                         *)
(* A String is a sequence of one-character strings, a Vec<u8> a sequence   *)
(* of integers 0..255.  Option<T> is <<>> (None) or <<v>> (Some(v)).       *)
(* Result<T> is [ok |-> TRUE, val |-> v] or [ok |-> FALSE, err |-> e].     *)
(***************************************************************************)
EXTENDS Integers, Sequences, FiniteSets, TLC

VARIABLES
    pc,          \* position of main(): start, load, open_in, open_out, loop, rename, done, failed
    cli,         \* the parsed command line (struct Cli)
    input,       \* the records the input reader's iterator yields, in order
    fs,          \* the file system: path -> file content
    bq_map,      \* Option<HashMap<String, BqQuals>> of main()
    rd,          \* number of records taken from reader.records() so far
    writer,      \* "none" | "open" | "closed": the bam::Writer of main()
    out,         \* the records handed to writer.write() so far, in order
    n_total,
    n_tagged,
    n_skipped,
    err,         \* why main() failed ("" while it has not)
    summary,     \* Option<<<total, tagged, skipped>>>: the final eprintln!
    hist,        \* observations for the properties (what was read, renamed, loaded)
    arg,         \* Option: the argument of a function called on its own
    ret          \* Option: what that call returned

vars == <<pc, cli, input, fs, bq_map, rd, writer, out, n_total, n_tagged, n_skipped,
          err, summary, hist, arg, ret>>

-----------------------------------------------------------------------------
(* Bounds of the model *)

\* longest record stream the reader yields
MaxRecords == 2

\* most calls of load_bq_map_with_cache in one behaviour of SpecLoad
MaxLoads == 2

\* most entries of a quality map in SpecCache
MaxEntries == 2

\* most `;`-separated pieces of the token of a header in SpecToken
MaxPieces == 4

\* most `_`-separated segments of a read name in SpecName
MaxSegments == 4

\* most four-line blocks of a quality source in SpecSource
MaxBlocks == 2

-----------------------------------------------------------------------------
(* Characters and bytes *)

None == <<>>
Some(v) == <<v>>
IsSome(o) == Len(o) = 1
Unwrap(o) == o[1]

Ok(v) == [ok |-> TRUE, val |-> v]
Err(e) == [ok |-> FALSE, err |-> e]

Range(s) == {s[i] : i \in 1..Len(s)}

\* a string literal as a String of the model
Str(s) == [i \in 1..Len(s) |-> SubSeq(s, i, i)]

\* the ASCII code of every character the model uses
AsciiTable ==
    << <<" ", 32>>, <<"#", 35>>, <<"+", 43>>, <<"-", 45>>, <<"0", 48>>, <<"1", 49>>,
       <<"5", 53>>, <<"7", 55>>, <<":", 58>>, <<";", 59>>, <<"@", 64>>, <<"A", 65>>,
       <<"B", 66>>, <<"C", 67>>, <<"G", 71>>, <<"I", 73>>, <<"M", 77>>, <<"P", 80>>,
       <<"Q", 81>>, <<"T", 84>>, <<"U", 85>>, <<"_", 95>>, <<"a", 97>>, <<"b", 98>>,
       <<"d", 100>>, <<"i", 105>>, <<"u", 117>>, <<"v", 118>>, <<"x", 120>>,
       <<"|", 124>> >>

Chars == {p[1] : p \in Range(AsciiTable)}
TextBytes == {p[2] : p \in Range(AsciiTable)}

ByteTable == [c \in Chars |-> (CHOOSE p \in Range(AsciiTable) : p[1] = c)[2]]
CharTable == [b \in TextBytes |-> (CHOOSE p \in Range(AsciiTable) : p[2] = b)[1]]

ByteOf(c) == ByteTable[c]
CharOf(b) == CharTable[b]

\* str::as_bytes / String::into_bytes
AsBytes(s) == [i \in 1..Len(s) |-> ByteOf(s[i])]

\* a byte of no UTF-8 text (0xFF never occurs in UTF-8)
BadByte == 255

\* str::from_utf8 / String::from_utf8: the model's texts are ASCII, every
\* other byte it meets is BadByte
FromUtf8(bytes) ==
    IF \A i \in 1..Len(bytes) : bytes[i] \in TextBytes
    THEN Ok([i \in 1..Len(bytes) |-> CharOf(bytes[i])])
    ELSE Err("utf8")

IsWhitespace(c) == c = " "

-----------------------------------------------------------------------------
(* String operations of the standard library, as the code uses them *)

\* index of the first occurrence of c in s at or after i, Len(s)+1 when none
RECURSIVE IndexFrom(_, _, _)
IndexFrom(s, c, i) ==
    IF i > Len(s) THEN Len(s) + 1
    ELSE IF s[i] = c THEN i
    ELSE IndexFrom(s, c, i + 1)

\* str::split(c): the pieces between the delimiters, empty pieces included
RECURSIVE Split(_, _)
Split(s, c) ==
    LET k == IndexFrom(s, c, 1)
    IN  IF k > Len(s) THEN <<s>>
        ELSE <<SubSeq(s, 1, k - 1)>> \o Split(SubSeq(s, k + 1, Len(s)), c)

\* str::split_once(c): Some(<<before, after>>) around the first c
SplitOnce(s, c) ==
    LET k == IndexFrom(s, c, 1)
    IN  IF k > Len(s) THEN None
        ELSE Some(<<SubSeq(s, 1, k - 1), SubSeq(s, k + 1, Len(s))>>)

\* str::find(pat): Some(0-based offset) of the first occurrence of pat
Find(s, pat) ==
    LET hits == {i \in 1..(Len(s) - Len(pat) + 1) : SubSeq(s, i, i + Len(pat) - 1) = pat}
    IN  IF hits = {} THEN None
        ELSE Some((CHOOSE i \in hits : \A j \in hits : i <= j) - 1)

\* str::split_whitespace().next(): the first maximal run of non-whitespace
\* characters (leading whitespace is skipped), None when there is none
RECURSIVE SkipWhitespace(_, _)
SkipWhitespace(s, i) ==
    IF i <= Len(s) /\ IsWhitespace(s[i]) THEN SkipWhitespace(s, i + 1) ELSE i

RECURSIVE WordEnd(_, _)
WordEnd(s, i) ==
    IF i <= Len(s) /\ ~IsWhitespace(s[i]) THEN WordEnd(s, i + 1) ELSE i

FirstWord(s) ==
    LET b == SkipWhitespace(s, 1)
    IN  IF b > Len(s) THEN None ELSE Some(SubSeq(s, b, WordEnd(s, b) - 1))

\* Option::unwrap_or
UnwrapOr(o, d) == IF IsSome(o) THEN Unwrap(o) ELSE d

-----------------------------------------------------------------------------
(* parse_read_name, perfect_quality *)

\* parse_read_name that takes no empty barcode component and no empty UMI
parse_read_name_no_empty(name) ==
    LET parts == Split(name, "_")
    IN  IF Len(parts) # 3 THEN Err("underscore")
        ELSE LET barcode_parts == Split(parts[2], "-")
             IN  IF Len(barcode_parts) # 3 THEN Err("hyphen")
                 ELSE IF \E k \in 1..3 : barcode_parts[k] = <<>> THEN Err("empty")
                 ELSE IF parts[3] = <<>> THEN Err("empty")
                 ELSE Ok([i7 |-> barcode_parts[1], i5 |-> barcode_parts[2],
                          cbc |-> barcode_parts[3], umi |-> parts[3]])

parse_read_name(name) ==
    LET parts == Split(name, "_")
    IN  IF Len(parts) # 3 THEN Err("underscore")
        ELSE LET barcode_parts == Split(parts[2], "-")
             IN  IF Len(barcode_parts) # 3 THEN Err("hyphen")
                 ELSE Ok([i7 |-> barcode_parts[1], i5 |-> barcode_parts[2],
                          cbc |-> barcode_parts[3], umi |-> parts[3]])

perfect_quality(length) == [i \in 1..length |-> ByteOf("I")]

-----------------------------------------------------------------------------
(* parse_bq_token, load_bq_map *)

BqQuals(cb, umi) == [cb |-> cb, umi |-> umi]

\* one arm of the match on the label of a `label:qual` piece
AssignLabel(acc, label, qual) ==
    IF label = Str("i7") THEN [acc EXCEPT !.i7 = Some(qual)]
    ELSE IF label = Str("i5") THEN [acc EXCEPT !.i5 = Some(qual)]
    ELSE IF label = Str("CBC") THEN [acc EXCEPT !.cbc = Some(qual)]
    ELSE IF label = Str("UMI") THEN [acc EXCEPT !.umi = Some(qual)]
    ELSE acc

\* the loop over token.split(';'), from piece k on
RECURSIVE ScanParts(_, _, _)
ScanParts(parts, k, acc) ==
    IF k > Len(parts) THEN acc
    ELSE LET lq == SplitOnce(parts[k], ":")
         IN  ScanParts(parts, k + 1,
                       IF IsSome(lq) THEN AssignLabel(acc, Unwrap(lq)[1], Unwrap(lq)[2])
                       ELSE acc)

BqMarker == Str("|BQ:")

\* Option<BqQuals>
parse_bq_token(header) ==
    LET bq_start == Find(header, BqMarker)
    IN  IF ~IsSome(bq_start) THEN None
        ELSE LET rest  == SubSeq(header, Unwrap(bq_start) + 4 + 1, Len(header))
                 token == UnwrapOr(FirstWord(rest), rest)
                 f     == ScanParts(Split(token, ";"), 1,
                                    [i7 |-> None, i5 |-> None, cbc |-> None, umi |-> None])
             IN  IF IsSome(f.i7) /\ IsSome(f.i5) /\ IsSome(f.cbc)
                 THEN Some(BqQuals(AsBytes(Unwrap(f.i7) \o Unwrap(f.i5) \o Unwrap(f.cbc)),
                                   IF IsSome(f.umi) THEN Some(AsBytes(Unwrap(f.umi)))
                                   ELSE None))
                 ELSE None

\* HashMap::insert
MapInsert(m, k, v) == [x \in (DOMAIN m) \cup {k} |-> IF x = k THEN v ELSE m[x]]

EmptyMap == [x \in {} |-> None]

\* the map key of a header line
HeaderName(header) ==
    LET stripped == IF Len(header) > 0 /\ header[1] = "@" THEN Tail(header) ELSE header
    IN  UnwrapOr(FirstWord(stripped), <<>>)

\* the loop of load_bq_map over the lines of the source, the next header
\* being line i: the three lines after it are taken without being looked at
RECURSIVE LoadLoop(_, _, _)
LoadLoop(lines, i, map) ==
    IF i > Len(lines) THEN map
    ELSE LET header == lines[i]
             quals  == parse_bq_token(header)
         IN  LoadLoop(lines, i + 4,
                      IF IsSome(quals) THEN MapInsert(map, HeaderName(header), Unwrap(quals))
                      ELSE map)

NoFile == [kind |-> "none"]
TextFile(lines) == [kind |-> "text", lines |-> lines]
BinFile(bytes) == [kind |-> "bin", bytes |-> bytes]
BamFile(recs) == [kind |-> "bam", recs |-> recs]

\* load_bq_map on the file f at the source path: Result<HashMap>
load_bq_map(f) ==
    IF f.kind # "text" THEN Err("open fastq")
    ELSE Ok(LoadLoop(f.lines, 1, EmptyMap))

-----------------------------------------------------------------------------
(* The cache codec: write_bq_cache, read_bq_cache and their helpers *)

BQ_CACHE_MAGIC == AsBytes(Str("TBQMAP01"))

\* the model's integers are 32 bits wide: a u64 of 2^24 or more is kept as
\* TooLong, which is longer than any file of the model
TooLong == 16777216

\* u64::to_le_bytes
ToLeBytes(v) ==
    <<v % 256, (v \div 256) % 256, (v \div 65536) % 256, 0, 0, 0, 0, 0>>

\* u64::from_le_bytes
FromLeBytes(b) ==
    IF \E i \in 4..8 : b[i] # 0 THEN TooLong
    ELSE b[1] + 256 * b[2] + 65536 * b[3]

write_u64(value) == ToLeBytes(value)
write_u8(value) == <<value>>
write_bytes(bytes) == write_u64(Len(bytes)) \o bytes

\* WriteEntry that writes an empty UMI quality as an absent one
WriteEntry_empty_umi_absent(name, quals) ==
    write_bytes(AsBytes(name)) \o write_bytes(quals.cb) \o
    (IF IsSome(quals.umi) /\ Len(Unwrap(quals.umi)) > 0
     THEN write_u8(1) \o write_bytes(Unwrap(quals.umi))
     ELSE write_u8(0))

\* the bytes of one entry of the loop of write_bq_cache
WriteEntry(name, quals) ==
    write_bytes(AsBytes(name)) \o write_bytes(quals.cb) \o
    (IF IsSome(quals.umi) THEN write_u8(1) \o write_bytes(Unwrap(quals.umi))
     ELSE write_u8(0))

RECURSIVE WriteEntries(_, _, _)
WriteEntries(map, order, k) ==
    IF k > Len(order) THEN <<>>
    ELSE WriteEntry(order[k], map[order[k]]) \o WriteEntries(map, order, k + 1)

\* the orders in which `for (name, quals) in map` may visit the entries
IterOrders(map) ==
    {o \in [1..Cardinality(DOMAIN map) -> DOMAIN map] : Range(o) = DOMAIN map}

\* the bytes write_bq_cache puts in the file when the map is iterated in `order`
write_bq_cache(map, order) ==
    BQ_CACHE_MAGIC \o write_u64(Cardinality(DOMAIN map)) \o WriteEntries(map, order, 1)

\* Read::read_exact of n bytes at offset pos (0-based): the bytes and the new offset
read_exact(bytes, pos, n) ==
    IF pos + n > Len(bytes) THEN Err("eof")
    ELSE Ok([buf |-> SubSeq(bytes, pos + 1, pos + n), pos |-> pos + n])

read_u64(bytes, pos) ==
    LET r == read_exact(bytes, pos, 8)
    IN  IF r.ok THEN Ok([v |-> FromLeBytes(r.val.buf), pos |-> r.val.pos]) ELSE r

read_u8(bytes, pos) ==
    LET r == read_exact(bytes, pos, 1)
    IN  IF r.ok THEN Ok([v |-> r.val.buf[1], pos |-> r.val.pos]) ELSE r

read_bytes(bytes, pos) ==
    LET len == read_u64(bytes, pos)
    IN  IF ~len.ok THEN len
        ELSE LET r == read_exact(bytes, len.val.pos, len.val.v)
             IN  IF r.ok THEN Ok([v |-> r.val.buf, pos |-> r.val.pos]) ELSE r

\* the loop `for _ in 0..count_usize` of read_bq_cache with `left` rounds to go
RECURSIVE ReadEntries(_, _, _, _)
ReadEntries(bytes, pos, left, map) ==
    IF left = 0 THEN Ok(map)
    ELSE
    LET name_bytes == read_bytes(bytes, pos)
    IN  IF ~name_bytes.ok THEN Err("name")
        ELSE
        LET cb == read_bytes(bytes, name_bytes.val.pos)
        IN  IF ~cb.ok THEN Err("cb")
            ELSE
            LET umi_present == read_u8(bytes, cb.val.pos)
            IN  IF ~umi_present.ok THEN Err("umi presence")
                ELSE
                LET umi == IF umi_present.val.v = 1
                           THEN read_bytes(bytes, umi_present.val.pos)
                           ELSE Ok([v |-> <<>>, pos |-> umi_present.val.pos])
                IN  IF ~umi.ok THEN Err("umi")
                    ELSE
                    LET name == FromUtf8(name_bytes.val.v)
                    IN  IF ~name.ok THEN Err("non-UTF8 read name")
                        ELSE ReadEntries(bytes, umi.val.pos, left - 1,
                                 MapInsert(map, name.val,
                                     BqQuals(cb.val.v,
                                             IF umi_present.val.v = 1 THEN Some(umi.val.v)
                                             ELSE None)))

\* read_bq_cache on the file f at the cache path: Result<HashMap>
read_bq_cache(f) ==
    IF f.kind # "bin" THEN Err("open cache")
    ELSE
    LET magic == read_exact(f.bytes, 0, 8)
    IN  IF ~magic.ok THEN Err("header")
        ELSE IF magic.val.buf # BQ_CACHE_MAGIC THEN Err("invalid header")
        ELSE LET count == read_u64(f.bytes, magic.val.pos)
             IN  IF ~count.ok THEN Err("entry count")
                 ELSE ReadEntries(f.bytes, count.val.pos, count.val.v, EmptyMap)

-----------------------------------------------------------------------------
(* load_bq_map_with_cache *)

Exists(fsys, path) == fsys[path].kind # "none"

\* load_bq_map_with_cache that never looks for the cache file
load_bq_map_with_cache_never_cached(fsys, fastq_path, cache_path) ==
    LET map == load_bq_map(fsys[fastq_path])
    IN  IF map.ok /\ IsSome(cache_path)
        THEN {[res |-> map,
               fs |-> [fsys EXCEPT ![Unwrap(cache_path)] =
                           BinFile(write_bq_cache(map.val, order))],
               src_read |-> TRUE, cache_written |-> TRUE]
              : order \in IterOrders(map.val)}
        ELSE {[res |-> map, fs |-> fsys, src_read |-> TRUE, cache_written |-> FALSE]}

\* load_bq_map_with_cache that parses the source when the cache cannot be decoded
load_bq_map_with_cache_fallback(fsys, fastq_path, cache_path) ==
    IF IsSome(cache_path) /\ read_bq_cache(fsys[Unwrap(cache_path)]).ok
    THEN {[res |-> read_bq_cache(fsys[Unwrap(cache_path)]), fs |-> fsys,
           src_read |-> FALSE, cache_written |-> FALSE]}
    ELSE load_bq_map_with_cache_never_cached(fsys, fastq_path, cache_path)

\* every way a call can end: the Result it returns, the file system it
\* leaves, whether it opened the quality source, whether it wrote the cache
load_bq_map_with_cache(fsys, fastq_path, cache_path) ==
    IF IsSome(cache_path) /\ Exists(fsys, Unwrap(cache_path))
    THEN {[res |-> read_bq_cache(fsys[Unwrap(cache_path)]), fs |-> fsys,
           src_read |-> FALSE, cache_written |-> FALSE]}
    ELSE LET map == load_bq_map(fsys[fastq_path])
         IN  IF ~map.ok
             THEN {[res |-> map, fs |-> fsys, src_read |-> TRUE, cache_written |-> FALSE]}
             ELSE IF IsSome(cache_path)
             THEN {[res |-> map,
                    fs |-> [fsys EXCEPT ![Unwrap(cache_path)] =
                                BinFile(write_bq_cache(map.val, order))],
                    src_read |-> TRUE, cache_written |-> TRUE]
                   : order \in IterOrders(map.val)}
             ELSE {[res |-> map, fs |-> fsys, src_read |-> TRUE, cache_written |-> FALSE]}

-----------------------------------------------------------------------------
(* Records and the tagging of one record (the body of the loop of main) *)

TargetTags == {"CB", "CY", "UB", "UY"}

Record(qname, aux) == [qname |-> qname, seq |-> Str("ACGT"), aux |-> aux]

\* record.aux(tag).is_ok()
has_aux(record, tag) == \E i \in 1..Len(record.aux) : record.aux[i][1] = tag

\* record.push_aux(tag, Aux::String(value))
push_aux(record, tag, value) == [record EXCEPT !.aux = Append(@, <<tag, value>>)]

has_existing_tags(record) ==
    has_aux(record, "CB") \/ has_aux(record, "CY") \/ has_aux(record, "UB")
        \/ has_aux(record, "UY")

\* Qualities with the two synthesized lengths exchanged
Qualities_lengths_swapped(map, qname, cell_barcode, umi) ==
    IF IsSome(map) /\ qname \in DOMAIN Unwrap(map)
    THEN LET quals == Unwrap(map)[qname]
         IN  <<quals.cb, UnwrapOr(quals.umi, perfect_quality(Len(umi)))>>
    ELSE <<perfect_quality(Len(umi)), perfect_quality(Len(cell_barcode))>>

\* Qualities that never takes the UMI quality of the entry
Qualities_umi_synthesized(map, qname, cell_barcode, umi) ==
    IF IsSome(map) /\ qname \in DOMAIN Unwrap(map)
    THEN <<Unwrap(map)[qname].cb, perfect_quality(Len(umi))>>
    ELSE <<perfect_quality(Len(cell_barcode)), perfect_quality(Len(umi))>>

\* the pair (cell_barcode_qual, umi_qual) of main
Qualities(map, qname, cell_barcode, umi) ==
    IF IsSome(map)
    THEN IF qname \in DOMAIN Unwrap(map)
         THEN LET quals == Unwrap(map)[qname]
              IN  <<quals.cb, UnwrapOr(quals.umi, perfect_quality(Len(umi)))>>
         ELSE <<perfect_quality(Len(cell_barcode)), perfect_quality(Len(umi))>>
    ELSE <<perfect_quality(Len(cell_barcode)), perfect_quality(Len(umi))>>

\* the Ok(components) arm of the match on parse_read_name(qname)
TagParsed(record, qname, components, map) ==
    IF has_existing_tags(record)
    THEN [kind |-> "skipped", rec |-> record]
    ELSE LET cell_barcode == components.i7 \o components.i5 \o components.cbc
             q    == Qualities(map, qname, cell_barcode, components.umi)
             cy   == FromUtf8(q[1])
             uy   == FromUtf8(q[2])
         IN  IF ~cy.ok \/ ~uy.ok
             THEN [kind |-> "fatal", err |-> "panic"]   \* .unwrap() of from_utf8
             ELSE [kind |-> "tagged",
                   rec |-> push_aux(push_aux(push_aux(push_aux(record,
                               "CB", cell_barcode), "CY", cy.val),
                               "UB", components.umi), "UY", uy.val)]

\* TagUnparsed that fails whatever the flag says
TagUnparsed_always_fatal(record, skip_unparseable) ==
    [kind |-> "fatal", err |-> "decode"]

\* TagUnparsed that skips whatever the flag says
TagUnparsed_always_skip(record, skip_unparseable) ==
    [kind |-> "skipped", rec |-> record]

\* the Err(e) arm of the match on parse_read_name(qname)
TagUnparsed(record, skip_unparseable) ==
    IF skip_unparseable
    THEN [kind |-> "skipped", rec |-> record]
    ELSE [kind |-> "fatal", err |-> "decode"]

\* one round of the loop of main, from the record read to the record to write
TagRecord(record, map, skip_unparseable) ==
    LET qname == FromUtf8(record.qname)
    IN  IF ~qname.ok THEN [kind |-> "fatal", err |-> "utf8"]
        ELSE LET parsed == parse_read_name(qname.val)
             IN  IF parsed.ok THEN TagParsed(record, qname.val, parsed.val, map)
                 ELSE TagUnparsed(record, skip_unparseable)

-----------------------------------------------------------------------------
(* The inputs of a run *)

InputPath == "in"
Paths == {"in", "out", "tmp", "fq", "cache"}

\* the hidden temporary path main derives from cli.input
TempPath(input_path) == "tmp"

\* the records a reader may yield
RecordPool ==
    { Record(AsBytes(Str("u_A-C-G_T")), <<>>),
      Record(AsBytes(Str("v_AC--G_")), << <<"XX", Str("1")>> >>),
      Record(AsBytes(Str("u_A-C-G_T")), << <<"CB", Str("b")>> >>),
      Record(AsBytes(Str("bad")), <<>>),
      Record(AsBytes(Str("x_A-C_T")), << <<"XX", Str("1")>>, <<"UY", Str("#")>> >>) }

RECURSIVE SeqsUpTo(_, _)
SeqsUpTo(S, n) ==
    IF n = 0 THEN {<<>>}
    ELSE LET shorter == SeqsUpTo(S, n - 1)
         IN  shorter \cup {Append(q, x) : q \in {r \in shorter : Len(r) = n - 1}, x \in S}

\* quality sources
FastqBoth ==
    TextFile(<< Str("@u_A-C-G_T x|BQ:i7:#;i5:0;CBC:1;UMI:7"), Str("ACGT"), Str("+"), Str("IIII"),
                Str("@v_AC--G_ |BQ:CBC:5;i5:;i7:1#"), Str("ACGT"), Str("+"), Str("IIII") >>)

FastqOne ==
    TextFile(<< Str("@x_A-C_T"), Str("ACGT"), Str("+"), Str("IIII"),
                Str("@v_AC--G_ |BQ:UMI:;i7:5;i5:5;CBC:5"), Str("ACGT"), Str("+") >>)

FastqFiles == {NoFile, FastqBoth, FastqOne}

\* cache files a run may find: one written by an earlier run from another
\* source, one whose qualities are no text, one that is no cache
CacheOld ==
    BinFile(BQ_CACHE_MAGIC \o write_u64(1)
            \o WriteEntry(Str("u_A-C-G_T"), BqQuals(AsBytes(Str("777")), None)))

CacheNoText ==
    BinFile(BQ_CACHE_MAGIC \o write_u64(1)
            \o WriteEntry(Str("u_A-C-G_T"), BqQuals(<<BadByte>>, None)))

CacheBroken == BinFile(AsBytes(Str("TBQMAP00")))

CacheFiles == {NoFile, CacheOld, CacheNoText, CacheBroken}

\* the fields of a cache file of one entry whose UMI quality is present
CacheFields ==
    << BQ_CACHE_MAGIC, write_u64(1),
       write_u64(1), AsBytes(Str("u")),
       write_u64(1), AsBytes(Str("#")),
       write_u8(1),
       write_u64(1), AsBytes(Str("7")) >>

RECURSIVE Flatten(_, _)
Flatten(fields, k) == IF k = 0 THEN <<>> ELSE Flatten(fields, k - 1) \o fields[k]

\* cache files whose stream ends early: after k whole fields, or one byte
\* into the field that follows them
TruncatedCaches ==
    {BinFile(Flatten(CacheFields, k)) : k \in 0..(Len(CacheFields) - 1)}
        \cup {BinFile(Flatten(CacheFields, k) \o SubSeq(CacheFields[k + 1], 1, 1))
                : k \in {j \in 0..(Len(CacheFields) - 1) : Len(CacheFields[j + 1]) > 1}}

\* a whole cache file but for the last character of its magic
CacheOtherMagic ==
    BinFile(CacheBroken.bytes
            \o SubSeq(Flatten(CacheFields, Len(CacheFields)), Len(BQ_CACHE_MAGIC) + 1,
                      Len(Flatten(CacheFields, Len(CacheFields)))))

\* a whole cache file whose entry has a name that is no UTF-8
CacheBadName ==
    BinFile(BQ_CACHE_MAGIC \o write_u64(1) \o write_bytes(<<BadByte>>)
            \o write_bytes(AsBytes(Str("#"))) \o write_u8(0))

MalformedCaches == {CacheBroken, CacheOtherMagic, CacheBadName} \cup TruncatedCaches

OrigFile == [kind |-> "orig"]

\* what Cli::parse can be handed: output and in_place in every combination,
\* a cache path only with a quality source (`requires`)
Clis ==
    { [input |-> InputPath, output |-> o, in_place |-> ip, skip_unparseable |-> sk,
       fastq_bq |-> fq, fastq_bq_cache |-> ca]
      : o \in {None, Some("out"), Some(InputPath)}, ip \in BOOLEAN, sk \in BOOLEAN,
        fq \in {None, Some("fq")}, ca \in {None, Some("cache")} }

\* the quality source and the cache file a run finds: a source and no cache,
\* a cache whose source is gone, or both (the cache good or malformed)
SourceAndCache(c) ==
    IF ~IsSome(c.fastq_bq) THEN {<<FastqBoth, NoFile>>}
    ELSE IF ~IsSome(c.fastq_bq_cache) THEN {<<fq, NoFile>> : fq \in FastqFiles}
    ELSE {<<fq, NoFile>> : fq \in FastqFiles}
             \cup {<<NoFile, ca>> : ca \in CacheFiles}
             \cup {<<FastqBoth, CacheOld>>}
             \cup {<<FastqBoth, ca>> : ca \in MalformedCaches}

FileSystems(c) ==
    { [p \in Paths |->
          IF p = InputPath THEN OrigFile
          ELSE IF p = "fq" THEN sc[1]
          ELSE IF p = "cache" THEN sc[2]
          ELSE NoFile]
      : sc \in SourceAndCache(c) }

\* mismatch: how the entry count of the cache file was made to differ from
\* the entries that follow it ("none" when it was not)
NoHist ==
    [renamed |-> FALSE, src_reads |-> 0, cache_writes |-> 0, loads |-> <<>>,
     mismatch |-> "none"]

\* what is kept of one call of load_bq_map_with_cache
LoadEvent(o) == [res |-> o.res, src_read |-> o.src_read, cache_written |-> o.cache_written]

Init ==
    /\ pc = "start"
    /\ cli \in Clis
    /\ input \in SeqsUpTo(RecordPool, MaxRecords)
    /\ fs \in FileSystems(cli)
    /\ bq_map = None
    /\ rd = 0
    /\ writer = "none"
    /\ out = <<>>
    /\ n_total = 0
    /\ n_tagged = 0
    /\ n_skipped = 0
    /\ err = ""
    /\ summary = None
    /\ hist = NoHist
    /\ arg = None
    /\ ret = None

-----------------------------------------------------------------------------
(* main *)

\* main returns Err (or panics): its locals are dropped, the writer with them
Fail(e) ==
    /\ pc' = "failed"
    /\ err' = e
    /\ writer' = IF writer = "open" THEN "closed" ELSE writer

\* ParseArgs that takes every command line
ParseArgs_unchecked ==
    /\ pc = "start"
    /\ pc' = "load"
    /\ UNCHANGED <<cli, input, fs, bq_map, rd, writer, out, n_total, n_tagged, n_skipped,
                   err, summary, hist, arg, ret>>

\* Cli::parse and the validation of output / in_place
ParseArgs ==
    /\ pc = "start"
    /\ IF IsSome(cli.output) /\ cli.in_place
       THEN Fail("usage")                   \* conflicts_with
       ELSE IF IsSome(cli.fastq_bq_cache) /\ ~IsSome(cli.fastq_bq)
       THEN Fail("usage")                   \* requires
       ELSE IF ~IsSome(cli.output) /\ ~cli.in_place
       THEN Fail("config")
       ELSE pc' = "load" /\ UNCHANGED <<err, writer>>
    /\ UNCHANGED <<cli, input, fs, bq_map, rd, out, n_total, n_tagged, n_skipped,
                   summary, hist>>
    /\ UNCHANGED <<arg, ret>>

\* let bq_map = ...
LoadMap ==
    /\ pc = "load"
    /\ IF IsSome(cli.fastq_bq)
       THEN \E o \in load_bq_map_with_cache(fs, Unwrap(cli.fastq_bq), cli.fastq_bq_cache) :
              /\ fs' = o.fs
              /\ hist' = [hist EXCEPT
                            !.src_reads = @ + (IF o.src_read THEN 1 ELSE 0),
                            !.cache_writes = @ + (IF o.cache_written THEN 1 ELSE 0),
                            !.loads = Append(@, LoadEvent(o))]
              /\ IF o.res.ok
                 THEN bq_map' = Some(o.res.val) /\ pc' = "open_in" /\ UNCHANGED <<err, writer>>
                 ELSE Fail("load") /\ UNCHANGED bq_map
       ELSE pc' = "open_in" /\ UNCHANGED <<fs, hist, bq_map, err, writer>>
    /\ UNCHANGED <<cli, input, rd, out, n_total, n_tagged, n_skipped, summary>>
    /\ UNCHANGED <<arg, ret>>

\* bam::Reader::from_path(&cli.input)
OpenReader ==
    /\ pc = "open_in"
    /\ IF Exists(fs, cli.input)
       THEN pc' = "open_out" /\ UNCHANGED <<err, writer>>
       ELSE Fail("open input")
    /\ UNCHANGED <<cli, input, fs, bq_map, rd, out, n_total, n_tagged, n_skipped,
                   summary, hist>>
    /\ UNCHANGED <<arg, ret>>

\* let output_path = ...
OutputPath == IF IsSome(cli.output) THEN Unwrap(cli.output) ELSE TempPath(cli.input)

\* bam::Writer::from_path(&output_path, ...): the file is created, or cut to
\* its header when it exists
OpenWriter ==
    /\ pc = "open_out"
    /\ fs' = [fs EXCEPT ![OutputPath] = BamFile(<<>>)]
    /\ writer' = "open"
    /\ pc' = "loop"
    /\ UNCHANGED <<cli, input, bq_map, rd, out, n_total, n_tagged, n_skipped, err,
                   summary, hist>>
    /\ UNCHANGED <<arg, ret>>

\* write that puts the record before the ones already written
write_in_front(recs, record) == <<record>> \o recs

\* writer.write(&record): the record goes to the end of the output
write(recs, record) == Append(recs, record)

\* ProcessRecord that does not count the records it skips
ProcessRecord_skips_uncounted ==
    /\ pc = "loop"
    /\ rd < Len(input)
    /\ LET r == TagRecord(input[rd + 1], bq_map, cli.skip_unparseable)
       IN  /\ rd' = rd + 1
           /\ n_total' = n_total + 1
           /\ IF r.kind = "fatal"
              THEN /\ Fail(r.err)
                   /\ UNCHANGED <<n_tagged, n_skipped, out, fs>>
              ELSE /\ n_tagged' = n_tagged + (IF r.kind = "tagged" THEN 1 ELSE 0)
                   /\ n_skipped' = n_skipped
                   /\ out' = write(out, r.rec)
                   /\ fs' = [fs EXCEPT ![OutputPath] = BamFile(write(@.recs, r.rec))]
                   /\ UNCHANGED <<pc, err, writer>>
    /\ UNCHANGED <<cli, input, bq_map, summary, hist>>
    /\ UNCHANGED <<arg, ret>>

\* one round of `for result in reader.records()` whose record is read and written
ProcessRecord ==
    /\ pc = "loop"
    /\ rd < Len(input)
    /\ LET r == TagRecord(input[rd + 1], bq_map, cli.skip_unparseable)
       IN  /\ rd' = rd + 1
           /\ n_total' = n_total + 1
           /\ IF r.kind = "fatal"
              THEN /\ Fail(r.err)
                   /\ UNCHANGED <<n_tagged, n_skipped, out, fs>>
              ELSE /\ n_tagged' = n_tagged + (IF r.kind = "tagged" THEN 1 ELSE 0)
                   /\ n_skipped' = n_skipped + (IF r.kind = "skipped" THEN 1 ELSE 0)
                   /\ out' = write(out, r.rec)
                   /\ fs' = [fs EXCEPT ![OutputPath] = BamFile(write(@.recs, r.rec))]
                   /\ UNCHANGED <<pc, err, writer>>
    /\ UNCHANGED <<cli, input, bq_map, summary, hist>>
    /\ UNCHANGED <<arg, ret>>

\* a round whose writer.write(&record) returns Err
WriteFails ==
    /\ pc = "loop"
    /\ rd < Len(input)
    /\ LET r == TagRecord(input[rd + 1], bq_map, cli.skip_unparseable)
       IN  /\ r.kind # "fatal"
           /\ rd' = rd + 1
           /\ n_total' = n_total + 1
           /\ n_tagged' = n_tagged + (IF r.kind = "tagged" THEN 1 ELSE 0)
           /\ n_skipped' = n_skipped + (IF r.kind = "skipped" THEN 1 ELSE 0)
           /\ Fail("write")
    /\ UNCHANGED <<cli, input, fs, bq_map, out, summary, hist>>
    /\ UNCHANGED <<arg, ret>>

\* a round whose `result` is Err: "Failed to read BAM record"
ReadFails ==
    /\ pc = "loop"
    /\ rd <= Len(input)
    /\ Fail("read")
    /\ UNCHANGED <<cli, input, fs, bq_map, rd, out, n_total, n_tagged, n_skipped,
                   summary, hist>>
    /\ UNCHANGED <<arg, ret>>

\* the iterator is exhausted; drop(writer)
DropWriter ==
    /\ pc = "loop"
    /\ rd = Len(input)
    /\ writer' = "closed"
    /\ pc' = "rename"
    /\ UNCHANGED <<cli, input, fs, bq_map, rd, out, n_total, n_tagged, n_skipped, err,
                   summary, hist>>
    /\ UNCHANGED <<arg, ret>>

\* std::fs::rename(from, to)
rename(fsys, from, to) == [fsys EXCEPT ![to] = fsys[from], ![from] = NoFile]

\* if cli.in_place { rename ...; eprintln! } else { eprintln! }; Ok(())
Finish ==
    /\ pc = "rename"
    /\ IF cli.in_place
       THEN /\ fs' = rename(fs, OutputPath, cli.input)
            /\ hist' = [hist EXCEPT !.renamed = TRUE]
       ELSE UNCHANGED <<fs, hist>>
    /\ summary' = Some(<<n_total, n_tagged, n_skipped>>)
    /\ pc' = "done"
    /\ UNCHANGED <<cli, input, bq_map, rd, writer, out, n_total, n_tagged, n_skipped, err>>
    /\ UNCHANGED <<arg, ret>>

\* std::fs::rename returns Err
RenameFails ==
    /\ pc = "rename"
    /\ cli.in_place
    /\ Fail("rename")
    /\ UNCHANGED <<cli, input, fs, bq_map, rd, out, n_total, n_tagged, n_skipped,
                   summary, hist>>
    /\ UNCHANGED <<arg, ret>>

Next ==
    \/ ParseArgs
    \/ LoadMap
    \/ OpenReader
    \/ OpenWriter
    \/ ProcessRecord
    \/ WriteFails
    \/ ReadFails
    \/ DropWriter
    \/ Finish
    \/ RenameFails

Spec == Init /\ [][Next]_vars

-----------------------------------------------------------------------------
(* Properties of main *)

\* what the properties say of a record, stated without the operators of main
NameOf(r) == FromUtf8(r.qname)
Decodable(r) == NameOf(r).ok /\ parse_read_name(NameOf(r).val).ok
Components(r) == parse_read_name(NameOf(r).val).val
PreTagged(r) == \E i \in 1..Len(r.aux) : r.aux[i][1] \in TargetTags
Sentinel(n) == [i \in 1..n |-> "I"]

\* record o carries annotation t exactly once, with value v
Carries(o, t, v) ==
    /\ Cardinality({i \in 1..Len(o.aux) : o.aux[i][1] = t}) = 1
    /\ \E i \in 1..Len(o.aux) : o.aux[i] = <<t, v>>

ValueOf(o, t) == o.aux[CHOOSE i \in 1..Len(o.aux) : o.aux[i][1] = t][2]

\* record o is record r with the four annotations added and nothing else changed
FourAdded(o, r) ==
    /\ o.qname = r.qname
    /\ o.seq = r.seq
    /\ Len(o.aux) = Len(r.aux) + 4
    /\ SubSeq(o.aux, 1, Len(r.aux)) = r.aux
    /\ {o.aux[i][1] : i \in (Len(r.aux) + 1)..Len(o.aux)} = TargetTags

HasEntry(r) == IsSome(bq_map) /\ NameOf(r).val \in DOMAIN Unwrap(bq_map)
EntryOf(r) == Unwrap(bq_map)[NameOf(r).val]

\* the written record of an untagged record with a decodable name and no map entry
C1_Case(k) ==
    /\ ~PreTagged(input[k])
    /\ Decodable(input[k])
    /\ ~HasEntry(input[k])

\* C1: a record with none of CB/CY/UB/UY whose name decodes to (i7, i5, cbc,
\* umi) is written, when there is no map or no entry for its name, with
\* CB = i7 ++ i5 ++ cbc, CY = len(CB) times 'I', UB = umi, UY = len(umi) times 'I'.
C1_SynthesizedTags ==
    \A k \in 1..Len(out) :
        C1_Case(k) =>
            LET c  == Components(input[k])
                cb == c.i7 \o c.i5 \o c.cbc
            IN  /\ Carries(out[k], "CB", cb)
                /\ Carries(out[k], "CY", Sentinel(Len(cb)))
                /\ Carries(out[k], "UB", c.umi)
                /\ Carries(out[k], "UY", Sentinel(Len(c.umi)))

\* a map is configured, has no entry for a written record, whose umi is empty
C1_Witness ==
    /\ pc = "done"
    /\ IsSome(bq_map)
    /\ \E k \in 1..Len(out) :
          /\ C1_Case(k)
          /\ Len(Components(input[k]).umi) = 0
          /\ Carries(out[k], "UY", <<>>)
          /\ Len(ValueOf(out[k], "CY")) = 3

\* C2: a record that carries one of CB, CY, UB, UY is a recoverable skip
\* whatever its name and whatever the tolerance flag: the round that takes it
\* does not fail on it, writes it as it was, and counts it as skipped, not tagged.
C2_PreTaggedAlwaysSkipped ==
    [][(pc = "loop" /\ rd' = rd + 1 /\ PreTagged(input[rd + 1]) /\ err' # "write")
          => /\ pc' = "loop"
             /\ out' = Append(out, input[rd + 1])
             /\ n_skipped' = n_skipped + 1
             /\ n_tagged' = n_tagged]_vars

\* the written record of an untagged record with a decodable name and a map entry
C3_Case(k) ==
    /\ ~PreTagged(input[k])
    /\ Decodable(input[k])
    /\ HasEntry(input[k])

\* C3: a tagged record whose exact name has a map entry gets CY = the entry's
\* barcode_quality and UY = the entry's umi_quality if present, else len(umi)
\* times 'I'; CB and UB come from the name alone.
C3_MapQualities ==
    \A k \in 1..Len(out) :
        C3_Case(k) =>
            LET c == Components(input[k])
                e == EntryOf(input[k])
            IN  /\ Carries(out[k], "CB", c.i7 \o c.i5 \o c.cbc)
                /\ Carries(out[k], "UB", c.umi)
                /\ \E cy \in {ValueOf(out[k], "CY")} :
                      Carries(out[k], "CY", cy) /\ AsBytes(cy) = e.cb
                /\ IF IsSome(e.umi)
                   THEN \E uy \in {ValueOf(out[k], "UY")} :
                           Carries(out[k], "UY", uy) /\ AsBytes(uy) = Unwrap(e.umi)
                   ELSE Carries(out[k], "UY", Sentinel(Len(c.umi)))

\* one written record took both qualities from its entry, another only CY
C3_Witness ==
    /\ pc = "done"
    /\ \E k \in 1..Len(out) :
          /\ C3_Case(k)
          /\ IsSome(EntryOf(input[k]).umi)
          /\ ValueOf(out[k], "UY") # Sentinel(Len(Components(input[k]).umi))
          /\ ValueOf(out[k], "CY") # Sentinel(Len(ValueOf(out[k], "CB")))
    /\ \E k \in 1..Len(out) :
          /\ C3_Case(k)
          /\ ~IsSome(EntryOf(input[k]).umi)

\* C4: the records written are the records read, in order, each as it was or
\* with exactly CB, CY, UB, UY added; a successful run has written them all.
C4_OrderAndContent ==
    /\ Len(out) <= rd
    /\ \A k \in 1..Len(out) : out[k] = input[k] \/ FourAdded(out[k], input[k])
    /\ pc = "done" =>
          /\ Len(out) = Len(input)
          /\ fs[IF cli.in_place THEN cli.input ELSE OutputPath] = BamFile(out)

\* a successful run over two different records, one tagged, one passed through
C4_Witness ==
    /\ pc = "done"
    /\ \E j, k \in 1..Len(out) :
          /\ j < k
          /\ input[j] # input[k]
          /\ out[j] = input[j]
          /\ FourAdded(out[k], input[k])

\* C5 as stated: with tolerance on, the written record of an undecodable name
\* carries none of CB, CY, UB, UY.
C5_Original ==
    \A k \in 1..Len(out) :
        (cli.skip_unparseable /\ ~Decodable(input[k])) => ~PreTagged(out[k])

\* C5: with tolerance on, a record with an undecodable name is written as it
\* was (no annotation added), counted as skipped and not as tagged, the loop
\* goes on, and the decodable untagged records around it are tagged.
C5_ToleratedUndecodable ==
    /\ [](cli.skip_unparseable =>
            /\ err # "decode"
            /\ \A k \in 1..Len(out) :
                  /\ ~Decodable(input[k]) => out[k] = input[k]
                  /\ (Decodable(input[k]) /\ ~PreTagged(input[k]))
                        => /\ FourAdded(out[k], input[k])
                           /\ Carries(out[k], "UB", Components(input[k]).umi))
    /\ [][(cli.skip_unparseable /\ pc = "loop" /\ rd' = rd + 1
              /\ ~Decodable(input[rd + 1]))
            => /\ n_skipped' = n_skipped + 1
               /\ n_tagged' = n_tagged
               /\ \/ err' = "write"
                  \/ pc' = "loop" /\ out' = Append(out, input[rd + 1])]_vars

\* an undecodable record went through, next to a record that was tagged
C5_Witness ==
    /\ cli.skip_unparseable
    /\ n_skipped = 1
    /\ \E k \in 1..Len(out) :
          /\ ~Decodable(input[k])
          /\ out[k] = input[k]
          /\ \E j \in 1..Len(out) : j # k /\ FourAdded(out[j], input[j])

\* C6: with tolerance off, no record with an undecodable name is ever written;
\* the round that meets the first one fails the run: the output file holds the
\* records before it and no more, no summary is printed, nothing is renamed.
C6_UndecodableAborts ==
    ~cli.skip_unparseable =>
        /\ \A k \in 1..Len(out) : Decodable(input[k])
        /\ \A k \in 1..rd :
              ~Decodable(input[k]) =>
                  /\ k = rd
                  /\ pc = "failed"
                  /\ err = "decode"
                  /\ Len(out) = k - 1
                  /\ fs[OutputPath] = BamFile(out)
                  /\ summary = None
                  /\ ~hist.renamed
                  /\ cli.in_place => fs[cli.input] = OrigFile

\* a direct-output run failed on its second record and left the first in the file
C6_Witness ==
    /\ pc = "failed"
    /\ err = "decode"
    /\ ~cli.in_place
    /\ rd = 2
    /\ fs[OutputPath] = BamFile(<<out[1]>>)

\* C7: the rename is the one step of a run that changes the input file: it is
\* taken in in-place mode only, after every record was read and written and the
\* writer was closed; until then the input file is as the caller left it.
C7_OnlyRenameTouchesInput ==
    [][fs'[cli.input] # fs[cli.input]
          => /\ cli.in_place
             /\ pc = "rename" /\ pc' = "done"
             /\ writer = "closed"
             /\ rd = Len(input) /\ Len(out) = Len(input)
             /\ fs[cli.input] = OrigFile]_vars

\* C8: an in-place run that fails before the rename leaves no temporary file
\* next to the input; only a failed rename leaves one.
C8_TempDiscardedOnFailure ==
    (pc = "failed" /\ cli.in_place /\ err # "rename")
        => ~Exists(fs, TempPath(cli.input))

-----------------------------------------------------------------------------
(* Runs that share a cache path: load_bq_map_with_cache called again and      *)
(* again, the quality source deleted or replaced in between                   *)

\* the quality sources of these runs: those of a single run, and one whose
\* only header has no marker
LoadSources == FastqFiles \cup {TextFile(<< Str("@u_A-C-G_T"), Str("ACGT") >>)}

InitLoad ==
    /\ pc = "idle"
    /\ cli \in {c \in Clis : /\ c.output = Some("out") /\ ~c.in_place /\ ~c.skip_unparseable
                             /\ IsSome(c.fastq_bq)}
    /\ input = <<>>
    /\ \E f \in FileSystems(cli), src \in LoadSources :
          fs = [f EXCEPT ![Unwrap(cli.fastq_bq)] = src]
    /\ bq_map = None
    /\ rd = 0
    /\ writer = "none"
    /\ out = <<>>
    /\ n_total = 0
    /\ n_tagged = 0
    /\ n_skipped = 0
    /\ err = ""
    /\ summary = None
    /\ hist = NoHist
    /\ arg = None
    /\ ret = None

\* one run's call of load_bq_map_with_cache
CallLoad ==
    /\ Len(hist.loads) < MaxLoads
    /\ \E o \in load_bq_map_with_cache(fs, Unwrap(cli.fastq_bq), cli.fastq_bq_cache) :
          /\ fs' = o.fs
          /\ hist' = [hist EXCEPT
                        !.src_reads = @ + (IF o.src_read THEN 1 ELSE 0),
                        !.cache_writes = @ + (IF o.cache_written THEN 1 ELSE 0),
                        !.loads = Append(@, LoadEvent(o))]
          /\ bq_map' = IF o.res.ok THEN Some(o.res.val) ELSE None
    /\ UNCHANGED <<pc, cli, input, rd, writer, out, n_total, n_tagged, n_skipped, err,
                   summary>>
    /\ UNCHANGED <<arg, ret>>

\* between two runs the quality source is deleted
DeleteSource ==
    /\ Exists(fs, Unwrap(cli.fastq_bq))
    /\ fs' = [fs EXCEPT ![Unwrap(cli.fastq_bq)] = NoFile]
    /\ UNCHANGED <<pc, cli, input, bq_map, rd, writer, out, n_total, n_tagged, n_skipped,
                   err, summary, hist>>
    /\ UNCHANGED <<arg, ret>>

\* between two runs the quality source is replaced by another
ChangeSource ==
    /\ \E f \in LoadSources \ {NoFile, fs[Unwrap(cli.fastq_bq)]} :
          fs' = [fs EXCEPT ![Unwrap(cli.fastq_bq)] = f]
    /\ UNCHANGED <<pc, cli, input, bq_map, rd, writer, out, n_total, n_tagged, n_skipped,
                   err, summary, hist>>
    /\ UNCHANGED <<arg, ret>>

NextLoad ==
    \/ CallLoad
    \/ DeleteSource
    \/ ChangeSource

SpecLoad == InitLoad /\ [][NextLoad]_vars

CacheGiven == IsSome(cli.fastq_bq_cache)
CachePath == Unwrap(cli.fastq_bq_cache)
Called == Len(hist'.loads) = Len(hist.loads) + 1
LastLoad == hist'.loads[Len(hist'.loads)]

\* C9: with a cache path, a call that finds the cache file takes the map from
\* it alone: the source is not opened and no file changes; a call that does not
\* find it parses the source and leaves a cache file that decodes to the map it
\* returns.  So every load after a first successful one returns the same map,
\* whatever has become of the source.
C9_CacheSubstitutes ==
    /\ [][(Called /\ CacheGiven) =>
             IF Exists(fs, CachePath)
             THEN /\ LastLoad.res = read_bq_cache(fs[CachePath])
                  /\ ~LastLoad.src_read
                  /\ ~LastLoad.cache_written
                  /\ fs' = fs
                  /\ hist'.src_reads = hist.src_reads
             ELSE /\ LastLoad.src_read
                  /\ LastLoad.res.ok =>
                        /\ Exists(fs', CachePath)
                        /\ read_bq_cache(fs'[CachePath]) = LastLoad.res]_vars
    /\ [](CacheGiven =>
            \A i, j \in 1..Len(hist.loads) :
                (i < j /\ hist.loads[i].res.ok) => hist.loads[j].res = hist.loads[i].res)

\* a first load wrote the cache from a source with two entries, the source
\* went away, and a second load returned the same map
C9_Witness ==
    /\ CacheGiven
    /\ Len(hist.loads) = 2
    /\ hist.loads[1].cache_written
    /\ hist.loads[1].res.ok
    /\ Cardinality(DOMAIN hist.loads[1].res.val) = 2
    /\ ~Exists(fs, Unwrap(cli.fastq_bq))
    /\ ~hist.loads[2].src_read
    /\ hist.loads[2].res = hist.loads[1].res

-----------------------------------------------------------------------------
(* The cache codec on its own: a map is written, then read back *)

CacheNames == {<<>>, Str("u"), Str("v_")}
CacheQuals ==
    {BqQuals(cb, umi) : cb \in {<<>>, AsBytes(Str("I")), <<1, 0>>},
                        umi \in {None, Some(<<>>), Some(<<1>>)}}

MapsUpTo(n) ==
    UNION {[D -> CacheQuals] : D \in {S \in SUBSET CacheNames : Cardinality(S) <= n}}

InitCache ==
    /\ pc = "write"
    /\ cli \in {c \in Clis : /\ c.output = Some("out") /\ ~c.in_place /\ ~c.skip_unparseable
                             /\ IsSome(c.fastq_bq) /\ IsSome(c.fastq_bq_cache)}
    /\ input = <<>>
    /\ fs = [p \in Paths |-> NoFile]
    /\ bq_map \in {Some(m) : m \in MapsUpTo(MaxEntries)}
    /\ rd = 0
    /\ writer = "none"
    /\ out = <<>>
    /\ n_total = 0
    /\ n_tagged = 0
    /\ n_skipped = 0
    /\ err = ""
    /\ summary = None
    /\ hist = NoHist
    /\ arg = None
    /\ ret = None

\* write_bq_cache(cache_path, &map), the map iterated in some order
WriteCache ==
    /\ pc = "write"
    /\ \E order \in IterOrders(Unwrap(bq_map)) :
          fs' = [fs EXCEPT ![CachePath] = BinFile(write_bq_cache(Unwrap(bq_map), order))]
    /\ hist' = [hist EXCEPT !.cache_writes = @ + 1]
    /\ pc' = "read"
    /\ UNCHANGED <<cli, input, bq_map, rd, writer, out, n_total, n_tagged, n_skipped, err,
                   summary>>
    /\ UNCHANGED <<arg, ret>>

\* read_bq_cache(cache_path)
ReadCache ==
    /\ pc = "read"
    /\ hist' = [hist EXCEPT !.loads = Append(@,
                  [res |-> read_bq_cache(fs[CachePath]), src_read |-> FALSE,
                   cache_written |-> FALSE])]
    /\ pc' = "end"
    /\ UNCHANGED <<cli, input, fs, bq_map, rd, writer, out, n_total, n_tagged, n_skipped,
                   err, summary>>
    /\ UNCHANGED <<arg, ret>>

NextCache ==
    \/ WriteCache
    \/ ReadCache

SpecCache == InitCache /\ [][NextCache]_vars

\* C10: read_bq_cache of what write_bq_cache wrote succeeds and returns the
\* keys of the map written and, for each key, its barcode_quality and its
\* umi_quality (absent stays absent, empty stays present), in whatever order
\* the entries were written.
C10_RoundTrip ==
    pc = "end" =>
        LET M == Unwrap(bq_map)
            r == hist.loads[1].res
        IN  /\ r.ok
            /\ DOMAIN r.val = DOMAIN M
            /\ \A name \in DOMAIN M :
                  /\ r.val[name].cb = M[name].cb
                  /\ IsSome(r.val[name].umi) = IsSome(M[name].umi)
                  /\ r.val[name].umi = M[name].umi

\* a map of two entries read back: one with an empty barcode quality and an
\* empty but present UMI quality, one with no UMI quality
C10_Witness ==
    /\ pc = "end"
    /\ hist.loads[1].res.ok
    /\ LET r == hist.loads[1].res.val
       IN  /\ Cardinality(DOMAIN r) = 2
           /\ \E a, b \in DOMAIN r :
                 /\ a # b
                 /\ r[a].cb = <<>> /\ r[a].umi = Some(<<>>)
                 /\ r[b].umi = None /\ Len(r[b].cb) = 2

-----------------------------------------------------------------------------
(* A run that finds a malformed cache file *)

\* C11: when a cache path is given and the file there is malformed (its first
\* 8 bytes are not TBQMAP01, its stream ends before a field is complete, or an
\* entry name is no UTF-8), the load fails and the run with it: no map is
\* returned, the quality source is not parsed instead, the cache file stays
\* as it was, no input record is read and no output or temporary file is made.
C11_MalformedCacheFatal ==
    /\ [][(pc = "load" /\ CacheGiven /\ fs[CachePath] \in MalformedCaches) =>
             /\ pc' = "failed"
             /\ err' = "load"
             /\ bq_map' = None
             /\ Len(hist'.loads) = 1
             /\ ~hist'.loads[1].res.ok
             /\ ~hist'.loads[1].src_read
             /\ ~hist'.loads[1].cache_written
             /\ hist'.src_reads = 0
             /\ hist'.cache_writes = 0
             /\ fs' = fs]_vars
    /\ []((pc = "failed" /\ err = "load") =>
             /\ rd = 0
             /\ out = <<>>
             /\ writer = "none"
             /\ n_total = 0
             /\ fs[InputPath] = OrigFile
             /\ ~Exists(fs, "out")
             /\ ~Exists(fs, TempPath(cli.input)))

\* a run with records to read and a good quality source failed on a cache
\* that ends inside its UMI quality
C11_Witness ==
    /\ pc = "failed"
    /\ err = "load"
    /\ CacheGiven
    /\ fs[CachePath] = BinFile(Flatten(CacheFields, Len(CacheFields) - 1))
    /\ fs[Unwrap(cli.fastq_bq)] = FastqBoth
    /\ Len(input) = MaxRecords

-----------------------------------------------------------------------------
(* The cache codec on a file whose entry count does not fit its entries *)

\* the bytes of a cache file with the entry count replaced by `count`
WithCount(bytes, count) ==
    SubSeq(bytes, 1, Len(BQ_CACHE_MAGIC)) \o write_u64(count)
        \o SubSeq(bytes, Len(BQ_CACHE_MAGIC) + Len(write_u64(count)) + 1, Len(bytes))

\* what may follow the last entry: one byte, or one more entry
ExtraBytes == {write_u8(0), WriteEntry(Str("x"), BqQuals(AsBytes(Str("I")), None))}

\* the file at the cache path gets another entry count than it has entries
SetCount ==
    /\ pc = "read"
    /\ hist.mismatch = "none"
    /\ LET n == Cardinality(DOMAIN Unwrap(bq_map))
       IN  \E count \in (0..(MaxEntries + 1)) \ {n} :
              /\ fs' = [fs EXCEPT ![CachePath] = BinFile(WithCount(@.bytes, count))]
              /\ hist' = [hist EXCEPT !.mismatch = IF count > n THEN "fewer" ELSE "more"]
    /\ UNCHANGED <<pc, cli, input, bq_map, rd, writer, out, n_total, n_tagged, n_skipped,
                   err, summary>>
    /\ UNCHANGED <<arg, ret>>

\* the file at the cache path gets bytes after its last entry
AppendExtra ==
    /\ pc = "read"
    /\ hist.mismatch = "none"
    /\ \E extra \in ExtraBytes :
          fs' = [fs EXCEPT ![CachePath] = BinFile(@.bytes \o extra)]
    /\ hist' = [hist EXCEPT !.mismatch = "more"]
    /\ UNCHANGED <<pc, cli, input, bq_map, rd, writer, out, n_total, n_tagged, n_skipped,
                   err, summary>>
    /\ UNCHANGED <<arg, ret>>

NextMismatch ==
    \/ WriteCache
    \/ SetCount
    \/ AppendExtra
    \/ ReadCache

SpecMismatch == InitCache /\ [][NextMismatch]_vars

\* C12: read_bq_cache fails on a file whose entry count differs from the
\* number of entries that follow it: when fewer entries follow, and when more
\* entries or any other bytes follow the counted ones.
C12_CountMismatchFatal ==
    (pc = "end" /\ hist.mismatch # "none") => ~hist.loads[1].res.ok

-----------------------------------------------------------------------------
(* parse_bq_token on its own: a header is handed to it, it returns *)

\* no run of main is under way
NoRun ==
    /\ cli = [input |-> InputPath, output |-> Some("out"), in_place |-> FALSE,
              skip_unparseable |-> FALSE, fastq_bq |-> Some("fq"), fastq_bq_cache |-> None]
    /\ input = <<>>
    /\ fs = [p \in Paths |-> NoFile]
    /\ bq_map = None
    /\ rd = 0
    /\ writer = "none"
    /\ out = <<>>
    /\ n_total = 0
    /\ n_tagged = 0
    /\ n_skipped = 0
    /\ err = ""
    /\ summary = None
    /\ hist = NoHist

\* the `label:qual` pieces of a token: the four labels, an unknown label, a
\* piece without colon, a value that holds a colon
TokenPieces ==
    {Str("i7:#"), Str("i5:0"), Str("CBC:1"), Str("UMI:7"), Str("x:1"), <<>>, Str("i5:5:7")}

RECURSIVE Join(_, _)
Join(pieces, sep) ==
    IF Len(pieces) = 0 THEN <<>>
    ELSE IF Len(pieces) = 1 THEN pieces[1]
    ELSE pieces[1] \o sep \o Join(Tail(pieces), sep)

\* header lines: a name, the marker, the token and what follows it on the
\* line, with or without a blank after the marker; and lines without marker
Headers ==
    {Str("@u") \o BqMarker \o lead \o Join(pieces, Str(";")) \o rest
       : lead \in {<<>>, Str(" ")},
         pieces \in SeqsUpTo(TokenPieces, MaxPieces),
         rest \in {<<>>, Str(" x"), Str(" |BQ:i7:A;i5:A;CBC:A")}}
      \cup {<<>>, Str("@u"), Str("@u BQ:i7:#;i5:0;CBC:1")}

InitToken ==
    /\ pc = "call"
    /\ arg \in {Some(h) : h \in Headers}
    /\ ret = None
    /\ NoRun

\* parse_bq_token(&header)
CallToken ==
    /\ pc = "call"
    /\ ret' = Some(parse_bq_token(Unwrap(arg)))
    /\ pc' = "return"
    /\ UNCHANGED <<cli, input, fs, bq_map, rd, writer, out, n_total, n_tagged, n_skipped,
                   err, summary, hist, arg>>

NextToken == CallToken

SpecToken == InitToken /\ [][NextToken]_vars

\* the token grammar, read off the header h: the token runs from just after
\* the first marker to the next whitespace character or the end of the line
MarkerStarts(h) ==
    {i \in 1..(Len(h) - Len(BqMarker) + 1) : SubSeq(h, i, i + Len(BqMarker) - 1) = BqMarker}
HasMarker(h) == MarkerStarts(h) # {}
MarkerAt(h) == CHOOSE i \in MarkerStarts(h) : \A j \in MarkerStarts(h) : i <= j
TokenOf(h) ==
    LET b == MarkerAt(h) + Len(BqMarker)
        ends == {e \in b..Len(h) : IsWhitespace(h[e])}
    IN  IF ends = {} THEN SubSeq(h, b, Len(h))
        ELSE SubSeq(h, b, (CHOOSE e \in ends : \A f \in ends : e <= f) - 1)

\* the pieces of the token that carry `label`, and the value of the last one
PiecesOf(h, label) ==
    LET pieces == Split(TokenOf(h), ";")
    IN  {k \in 1..Len(pieces) :
            /\ Len(pieces[k]) > Len(label)
            /\ SubSeq(pieces[k], 1, Len(label) + 1) = label \o Str(":")}
Found(h, label) == PiecesOf(h, label) # {}
ValueIn(h, label) ==
    LET pieces == Split(TokenOf(h), ";")
        k == CHOOSE i \in PiecesOf(h, label) : \A j \in PiecesOf(h, label) : j <= i
    IN  SubSeq(pieces[k], Len(label) + 2, Len(pieces[k]))

GrammarEntry(h) ==
    IF ~HasMarker(h) THEN None
    ELSE IF Found(h, Str("i7")) /\ Found(h, Str("i5")) /\ Found(h, Str("CBC"))
    THEN Some([cb  |-> AsBytes(ValueIn(h, Str("i7")) \o ValueIn(h, Str("i5"))
                                \o ValueIn(h, Str("CBC"))),
               umi |-> IF Found(h, Str("UMI")) THEN Some(AsBytes(ValueIn(h, Str("UMI"))))
                       ELSE None])
    ELSE None

\* C13: parse_bq_token follows the token grammar on every header: no entry
\* without the marker; the token is the text between the first marker and the
\* next whitespace character or the end of the line (so a blank right after
\* the marker leaves an empty token and no entry); the token is split on `;`,
\* each piece on its first `:`; pieces without `:` or with another label than
\* i7, i5, CBC, UMI count for nothing; there is an entry exactly when i7, i5
\* and CBC were found, its barcode quality is their values in that order, its
\* UMI quality the UMI value when there is one and absent otherwise.
C13_TokenGrammar ==
    pc = "return" => Unwrap(ret) = GrammarEntry(Unwrap(arg))

-----------------------------------------------------------------------------
(* parse_read_name on its own: a name is handed to it, it returns *)

\* the `_`-separated segments of a read name: with no, one, two and three
\* hyphens, with and without empty components
NameSegments ==
    {<<>>, Str("A"), Str("A-C"), Str("A-C-G"), Str("--"), Str("A--C"), Str("A-C-G-T")}

ReadNames ==
    {Join(segments, Str("_")) : segments \in SeqsUpTo(NameSegments, MaxSegments) \ {<<>>}}

InitName ==
    /\ pc = "call"
    /\ arg \in {Some(n) : n \in ReadNames}
    /\ ret = None
    /\ NoRun

\* parse_read_name(qname)
CallName ==
    /\ pc = "call"
    /\ ret' = Some(parse_read_name(Unwrap(arg)))
    /\ pc' = "return"
    /\ UNCHANGED <<cli, input, fs, bq_map, rd, writer, out, n_total, n_tagged, n_skipped,
                   err, summary, hist, arg>>

NextName == CallName

SpecName == InitName /\ [][NextName]_vars

\* the places of character c in s, the least and the greatest of a set of them
Places(s, c) == {i \in 1..Len(s) : s[i] = c}
Least(S) == CHOOSE i \in S : \A j \in S : i <= j
Greatest(S) == CHOOSE i \in S : \A j \in S : j <= i

\* the second of three `_`-separated segments, the third one
Middle(n) == SubSeq(n, Least(Places(n, "_")) + 1, Greatest(Places(n, "_")) - 1)
Third(n) == SubSeq(n, Greatest(Places(n, "_")) + 1, Len(n))

\* three segments, the second of three sub-segments
WellFormed(n) ==
    /\ Cardinality(Places(n, "_")) = 2
    /\ Cardinality(Places(Middle(n), "-")) = 2

\* C14: parse_read_name succeeds exactly on the names that `_` splits in
\* three segments, the second of which `-` splits in three sub-segments; it
\* then returns the sub-segments as i7, i5, cbc, in this order, and the third
\* segment as umi, whatever the first segment is (hyphens in it, or nothing)
\* and with empty components taken as they are; on every other name it fails.
C14_ReadNameGrammar ==
    pc = "return" =>
        LET n == Unwrap(arg)
            r == Unwrap(ret)
        IN  /\ r.ok <=> WellFormed(n)
            /\ r.ok =>
                  LET m == Middle(n)
                      h == Places(m, "-")
                  IN  /\ r.val.i7 = SubSeq(m, 1, Least(h) - 1)
                      /\ r.val.i5 = SubSeq(m, Least(h) + 1, Greatest(h) - 1)
                      /\ r.val.cbc = SubSeq(m, Greatest(h) + 1, Len(m))
                      /\ r.val.umi = Third(n)

\* a name was taken whose first segment has a hyphen, whose i5 is empty and
\* whose UMI is empty
C14_Witness ==
    /\ pc = "return"
    /\ Unwrap(arg) = Str("A-C_A--C_")
    /\ Unwrap(ret) = Ok([i7 |-> Str("A"), i5 |-> <<>>, cbc |-> Str("C"), umi |-> <<>>])

-----------------------------------------------------------------------------
(* A run whose command line names no output, or two *)

\* neither an output path nor in-place, or both
BadConfig == IsSome(cli.output) = cli.in_place

\* C15: a run given neither an output path nor the in-place flag, or both,
\* fails with a configuration error before it has done any I/O: its only step
\* is the failure, which leaves every file as it was; the quality source and
\* the cache are not read, no cache is written, the input is not opened and
\* neither an output nor a temporary file is made.
C15_ConfigErrorBeforeIO ==
    /\ [][BadConfig =>
             /\ pc = "start"
             /\ pc' = "failed"
             /\ err' \in {"config", "usage"}
             /\ fs' = fs
             /\ hist' = hist]_vars
    /\ [](BadConfig =>
             /\ pc \in {"start", "failed"}
             /\ hist = NoHist
             /\ bq_map = None
             /\ rd = 0
             /\ writer = "none"
             /\ out = <<>>
             /\ fs[InputPath] = OrigFile
             /\ ~Exists(fs, "out")
             /\ ~Exists(fs, TempPath(cli.input)))

\* a run without output path and without in-place has failed, with records to
\* read, a quality source to parse and a cache path with no file yet
C15_Witness ==
    /\ pc = "failed"
    /\ err = "config"
    /\ ~IsSome(cli.output) /\ ~cli.in_place
    /\ Len(input) = MaxRecords
    /\ CacheGiven
    /\ fs[Unwrap(cli.fastq_bq)] = FastqBoth
    /\ ~Exists(fs, CachePath)

-----------------------------------------------------------------------------
(* load_bq_map on its own: a quality source is handed to it, it returns *)

\* header lines of a quality source: two of one name, lines without marker
\* and with a token that lacks CBC, a blank after the `@`, two `@`, no `@`,
\* a blank after the marker
SourceHeaders ==
    {Str("@u |BQ:i7:#;i5:0;CBC:1"), Str("@u x|BQ:i7:1;i5:1;CBC:1;UMI:7"), Str("@v"),
     Str("@v |BQ:i7:#;i5:0"), Str("@ u |BQ:i7:#;i5:0;CBC:1"), Str("@@v|BQ:i7:#;i5:0;CBC:1"),
     Str("u |BQ:i7:#;i5:0;CBC:1"), Str("@u |BQ: i7:#;i5:0;CBC:1")}

\* the three lines after a header: sequence, separator and qualities, or
\* lines that read like headers
SourceFollowers ==
    {<<Str("ACGT"), Str("+"), Str("IIII")>>,
     <<Str("@x |BQ:i7:A;i5:A;CBC:A"), Str("@x |BQ:i7:A;i5:A;CBC:A"),
       Str("@x |BQ:i7:A;i5:A;CBC:A")>>}

SourceBlocks == {<<h>> \o f : h \in SourceHeaders, f \in SourceFollowers}

RECURSIVE Concat(_)
Concat(blocks) == IF Len(blocks) = 0 THEN <<>> ELSE blocks[1] \o Concat(Tail(blocks))

\* quality sources of up to MaxBlocks blocks, the last one whole or cut short
Sources ==
    {TextFile(SubSeq(Concat(blocks), 1, Len(Concat(blocks)) - cut))
       : blocks \in SeqsUpTo(SourceBlocks, MaxBlocks),
         cut \in 0..3}

InitSource ==
    /\ pc = "call"
    /\ cli = [input |-> InputPath, output |-> Some("out"), in_place |-> FALSE,
              skip_unparseable |-> FALSE, fastq_bq |-> Some("fq"), fastq_bq_cache |-> None]
    /\ arg = cli.fastq_bq
    /\ ret = None
    /\ input = <<>>
    /\ \E src \in Sources : fs = [p \in Paths |-> IF p = "fq" THEN src ELSE NoFile]
    /\ bq_map = None
    /\ rd = 0
    /\ writer = "none"
    /\ out = <<>>
    /\ n_total = 0
    /\ n_tagged = 0
    /\ n_skipped = 0
    /\ err = ""
    /\ summary = None
    /\ hist = NoHist

\* load_bq_map(fastq_path, threads)
CallSource ==
    /\ pc = "call"
    /\ ret' = Some(load_bq_map(fs[Unwrap(arg)]))
    /\ pc' = "return"
    /\ UNCHANGED <<cli, input, fs, bq_map, rd, writer, out, n_total, n_tagged, n_skipped,
                   err, summary, hist, arg>>

NextSource == CallSource

SpecSource == InitSource /\ [][NextSource]_vars

\* the header h with one leading `@` removed, cut at the first whitespace
\* character
KeyOf(h) ==
    LET s == IF Len(h) > 0 /\ h[1] = "@" THEN SubSeq(h, 2, Len(h)) ELSE h
        blanks == {i \in 1..Len(s) : IsWhitespace(s[i])}
    IN  IF blanks = {} THEN s ELSE SubSeq(s, 1, Least(blanks) - 1)

\* the first lines of the four-line blocks of a source that give an entry
EntryHeaders(lines) ==
    {i \in 1..Len(lines) : i % 4 = 1 /\ IsSome(GrammarEntry(lines[i]))}

\* C16: load_bq_map takes the source in blocks of four lines and looks only
\* at the first line of each; a header without marker, or with an incomplete
\* token, adds no entry while its three followers are taken all the same; a
\* header that gives an entry is filed under the header with one leading `@`
\* removed and cut at the first whitespace character; the map has exactly one
\* entry for each such key.
C16_FourLineBlocks ==
    pc = "return" =>
        LET lines == fs[Unwrap(arg)].lines
            r == Unwrap(ret)
        IN  /\ r.ok
            /\ DOMAIN r.val = {KeyOf(lines[i]) : i \in EntryHeaders(lines)}
            /\ \A k \in DOMAIN r.val :
                   \E i \in EntryHeaders(lines) :
                      KeyOf(lines[i]) = k /\ r.val[k] = Unwrap(GrammarEntry(lines[i]))

-----------------------------------------------------------------------------
(* The counters of main *)

\* every record read so far has been handled and written
FullyProcessed == pc \in {"loop", "rename", "done"}

\* C17: the three counters never decrease; after each fully processed record,
\* and so in the summary of every run that succeeds, total = tagged + skipped
\* = the number of records written so far; tagged is the number of records
\* that had the four annotations added, skipped the number of pre-tagged and
\* of tolerated undecodable records, which were written as they were read.
C17_Counters ==
    /\ [][/\ n_total' >= n_total
          /\ n_tagged' >= n_tagged
          /\ n_skipped' >= n_skipped]_vars
    /\ [](FullyProcessed =>
             LET written == 1..Len(out)
                 added   == {k \in written : FourAdded(out[k], input[k])}
                 passed  == {k \in written : PreTagged(input[k]) \/ ~Decodable(input[k])}
             IN  /\ n_total = n_tagged + n_skipped
                 /\ n_total = Len(out)
                 /\ Len(out) = rd
                 /\ n_tagged = Cardinality(added)
                 /\ n_skipped = Cardinality(passed)
                 /\ added \cap passed = {}
                 /\ \A k \in passed : out[k] = input[k]
                 /\ \A k \in passed : ~Decodable(input[k]) => cli.skip_unparseable
                 /\ pc = "done" => summary = Some(<<n_total, n_tagged, n_skipped>>))

\* a run ended well that tagged one record and passed on a pre-tagged one
C17_Witness ==
    /\ pc = "done"
    /\ summary = Some(<<MaxRecords, 1, MaxRecords - 1>>)
    /\ \E k \in 1..Len(input) : PreTagged(input[k]) /\ Decodable(input[k])
    /\ \E k \in 1..Len(out) : FourAdded(out[k], input[k])

====
